---- MODULE Spec2Model ----
(***************************************************************************)
(* Inventory / purchase consistency core of the sweet shop backend.        *)
(*                                                                         *)
(* One sweet with its inventory row, the purchases made against it and the *)
(* stock movement ledger of its inventory.  Requests are handled           *)
(* concurrently: a handler runs up to its next statement on the database   *)
(* that another request can affect or wait for, and that is one step.  The *)
(* three prisma.$transaction blocks run at the database's default          *)
(* isolation (PostgreSQL READ COMMITTED): a read sees the last committed   *)
(* rows, an UPDATE takes the row's lock until commit or rollback and is    *)
(* applied to the row as it is once the lock is granted, and the writes    *)
(* of a transaction become visible together at commit.                     *)
(***************************************************************************)
EXTENDS Integers, Sequences, FiniteSets, Bags, TLC

\* ---------------------------------------------------------------- bounds
MaxPurchases == 2
MaxMovements == 3
MaxQuantity == 2
MaxPrice == 1
MaxLevel == 2
MaxSweets == 2

\* ------------------------------------------------------ program constants
MAX_PURCHASE_QUANTITY == 100
MAX_RESTOCK_QUANTITY == 10000
\* createSweet: minStockLevel: 5, reorderPoint: Math.max(10, ...)
MIN_STOCK_LEVEL == 5
MIN_REORDER_POINT == 10

\* the handlers that can be running at the same time
Handlers == {"h1", "h2"}
Users == {"alice", "bob"}
NoUser == "none"
TheSweet == "sweet"
SweetIds == {TheSweet, "missing"}
PurchaseStatus == {"PENDING", "COMPLETED", "CANCELLED", "RETURNED"}
StockMovementType == {"RESTOCK", "RETURN"}
NoReason == "none"

\* what the requests of a specification may carry.  AllInputs: every kind of
\* request, malformed ones included, the purchases made by one user and
\* cancelled by her or by another one.  CoreInputs: well-formed requests.
AllInputs ==
    [createUsers |-> {"alice", NoUser},
     cancelUsers |-> Users \cup {NoUser},
     sweetIds |-> SweetIds,
     purchaseQuantities |-> (0..MaxQuantity) \cup {MAX_PURCHASE_QUANTITY + 1},
     restockQuantities |-> {0, 1, MAX_RESTOCK_QUANTITY + 1},
     reasons |-> {NoReason, "manual"},
     statuses |-> PurchaseStatus \cup {"SHIPPED"}]

CoreInputs ==
    [createUsers |-> {"alice"},
     cancelUsers |-> Users,
     sweetIds |-> {TheSweet},
     purchaseQuantities |-> {MaxQuantity},
     restockQuantities |-> {1},
     reasons |-> {NoReason},
     statuses |-> PurchaseStatus]

\* the names a createSweet or an updateSweet may carry; NoName: no name given
Names == {"Fudge", "fudge", "Fudge ", "Toffee"}
NoName == "none"
SweetNumbers == 1..MaxSweets

NameInputs == [names |-> Names \cup {NoName}, ids |-> SweetNumbers]

\* a field of a request body: <<>> when it is undefined, <<v>> when it is v
Undefined == <<>>
Supplied(field) == field # Undefined
Value(field) == field[1]
Levels == {Undefined} \cup {<<n>> : n \in 1..MaxLevel}

\* updateInventory requests on the sweet or on none, with any of the fields
InventoryInputs ==
    [sweetIds |-> SweetIds,
     quantities |-> {Undefined, <<0 - 1>>, <<MaxLevel>>},
     levels |-> Levels]

\* updateInventory requests that set the quantity or nothing
QuantityInputs ==
    [sweetIds |-> {TheSweet},
     quantities |-> {Undefined, <<MaxLevel>>},
     levels |-> {Undefined}]

VARIABLES
    sweet,            \* the sweet row: isActive, price
    inventory,        \* its inventory row: quantity, lastRestockedAt, the stock levels
    initialQuantity,  \* the quantity the inventory row was created with
    purchases,        \* committed purchase rows, a purchase's id is its index
    ledger,           \* committed stock_movements rows, in insertion order
    catalog,          \* the sweets rows made by createSweet requests: name, isActive
    req,              \* the requests being handled, a bag: each one's position and locals
    response          \* the response sent by the step just taken, if it sent one

vars == <<sweet, inventory, initialQuantity, purchases, ledger, catalog, req, response>>
db == <<sweet, inventory, initialQuantity, purchases, ledger, catalog>>

\* the ids a request can name: every purchase there is, and one there is not
PurchaseIds == 1..(Len(purchases) + 1)

Idle ==
    [op |-> "none", pc |-> "idle", userId |-> NoUser, id |-> 0, sweetId |-> "none",
     quantity |-> 0, status |-> "none", reason |-> NoReason,
     readStatus |-> "none", readQuantity |-> 0, readPrice |-> 0, orderNumber |-> 0,
     setQuantity |-> Undefined, minStockLevel |-> Undefined,
     maxStockLevel |-> Undefined, reorderPoint |-> Undefined,
     name |-> "none"]

\* a response: the handler that sent it and the user and purchase id of its
\* request, the HTTP status, the message, what the message names, and the data;
\* committed: the handler's writes were committed before it answered;
\* replaced: the status its UPDATE of the purchase row overwrote;
\* request: what the answered request carried
NoResponse ==
    [op |-> "none", userId |-> NoUser, id |-> 0, request |-> Idle,
     code |-> 0, message |-> "none",
     committed |-> FALSE, replaced |-> "none", named |-> "none", available |-> 0,
     previousQuantity |-> 0, newQuantity |-> 0]

Max(a, b) == IF a >= b THEN a ELSE b

RECURSIVE SumQuantity(_)
SumQuantity(rows) ==
    IF rows = <<>> THEN 0 ELSE Head(rows).quantity + SumQuantity(Tail(rows))

\* ------------------------------------------------------------- responses
\* res.status(code).json(new ApiResponse(code, data, message, ...))
Inputs(r) ==
    [Idle EXCEPT !.op = r.op, !.userId = r.userId, !.id = r.id, !.sweetId = r.sweetId,
                 !.quantity = r.quantity, !.status = r.status, !.reason = r.reason,
                 !.setQuantity = r.setQuantity, !.minStockLevel = r.minStockLevel,
                 !.maxStockLevel = r.maxStockLevel, !.reorderPoint = r.reorderPoint,
                 !.name = r.name]

Respond(r, code, message) ==
    [NoResponse EXCEPT !.op = r.op, !.userId = r.userId, !.id = r.id,
                       !.request = Inputs(r),
                       !.code = code, !.message = message]

\* after the writes are committed: the cache invalidation (deleteCache,
\* deleteCachePattern), whose exception reaches the catch block, then the response
AfterCommit(r, cacheOk, code, message, errorCode, errorMessage) ==
    IF cacheOk
    THEN [Respond(r, code, message) EXCEPT !.committed = TRUE]
    ELSE [Respond(r, errorCode, errorMessage) EXCEPT !.committed = TRUE]

\* the test matching the purchase's message only
IncludesPurchaseNotFound(message) == message = "Purchase not found"

\* error.message.includes("not found")
IncludesNotFound(message) ==
    message \in {"Sweet not found or inactive", "Sweet inventory not found", "Purchase not found"}

\* the catch block without its branch for the stock
CreateErrorCodeWithoutStock(message) ==
    IF IncludesNotFound(message) THEN 404 ELSE 500

\* catch block of createPurchase: error.message -> HTTP status
CreateErrorCode(message) ==
    IF IncludesNotFound(message) THEN 404
    ELSE IF message = "Insufficient stock available" THEN 400
    ELSE 500

\* catch block of cancelPurchase
CancelErrorCode(message) ==
    IF IncludesNotFound(message) THEN 404
    ELSE IF message = "Purchase cannot be cancelled" THEN 400
    ELSE 500

\* catch block of restockSweet
RestockErrorCode(message) == IF IncludesNotFound(message) THEN 404 ELSE 500

\* -------------------------------------------------------------- row locks
\* a transaction holds the inventory row's lock from its UPDATE to its end
HoldsInventoryLock(r) ==
    r.op \in {"create", "cancel", "restock"} /\ r.pc = "commit"

InventoryLocked == \E r \in BagToSet(req) : HoldsInventoryLock(r)

\* a cancel holds its purchase row's lock from the status UPDATE to its end
HoldsPurchaseLock(r, id) ==
    r.op = "cancel" /\ r.id = id /\ r.pc \in {"inventory", "commit"}

PurchaseLocked(id) == \E r \in BagToSet(req) : HoldsPurchaseLock(r, id)

\* ---------------------------------------------------------- order numbers
\* the orderNumbers of the committed purchases, and of the uncommitted INSERTs
CommittedOrderNumbers == {purchases[i].orderNumber : i \in 1..Len(purchases)}
InsertedOrderNumbers ==
    {r.orderNumber : r \in {r \in BagToSet(req) : r.op = "create" /\ r.pc \in {"inventory", "commit"}}}

\* the first name not taken
Fresh(S) == CHOOSE n \in 1..(Cardinality(S) + 1) : n \notin S /\ \A m \in 1..(n - 1) : m \in S

\* generateOrderNumber(): `ORD-${millis}-${random}` is either the orderNumber of
\* a purchase there is, or a new one (order numbers are named 1, 2, ... in the
\* order they first appear).  One equal to an uncommitted INSERT's waits for
\* that transaction to end, and is then one of these two.
GeneratedOrderNumbers ==
    CommittedOrderNumbers \cup {Fresh(CommittedOrderNumbers \cup InsertedOrderNumbers)}

\* ------------------------------------------------------- request plumbing
\* the handler at r answers and ends
Reply(r, res) ==
    /\ req' = req (-) SetToBag({r})
    /\ response' = res

\* the handler at r goes on to its next await, as r2
Continue(r, r2) ==
    /\ req' = (req (-) SetToBag({r})) (+) SetToBag({r2})
    /\ response' = NoResponse

RECURSIVE CountOps(_, _)
CountOps(rs, ops) ==
    IF rs = {} THEN 0
    ELSE LET r == CHOOSE x \in rs : TRUE IN
         (IF r.op \in ops THEN req[r] ELSE 0) + CountOps(rs \ {r}, ops)

InFlight(ops) == CountOps(BagToSet(req), ops)

\* a request arrives while a handler is free
CanStart(r) == r = Idle /\ BagCardinality(req) < Cardinality(Handlers)

RoomForMovement == Len(ledger) + InFlight({"create", "cancel", "restock"}) < MaxMovements
RoomForPurchase == Len(purchases) + InFlight({"create"}) < MaxPurchases
RoomForSweet == Len(catalog) + InFlight({"createSweet"}) < MaxSweets

\* ---------------------------------------------------------- createPurchase
\* the validation without its upper limit
ValidPurchaseQuantityAtLeastOne(quantity) == quantity >= 1

ValidPurchaseQuantity(quantity) == quantity >= 1 /\ quantity <= MAX_PURCHASE_QUANTITY

\* totalAmount: sweet.price || 0 * quantity  (|| binds looser than *; price
\* is a Prisma Decimal object, which is truthy whatever its value)
Truthy(price) == TRUE
TotalAmount(price, quantity) == IF Truthy(price) THEN price ELSE 0 * quantity

\* the row created as COMPLETED
PurchaseDataCompleted(r) ==
    [orderNumber |-> r.orderNumber, quantity |-> r.quantity, unitPrice |-> r.readPrice,
     totalAmount |-> TotalAmount(r.readPrice, r.quantity), status |-> "COMPLETED",
     userId |-> r.userId]

PurchaseData(r) ==
    [orderNumber |-> r.orderNumber, quantity |-> r.quantity, unitPrice |-> r.readPrice,
     totalAmount |-> TotalAmount(r.readPrice, r.quantity), status |-> "PENDING",
     userId |-> r.userId]

\* the movement with the quantity bought, not its negation
PurchaseMovementUnsigned(r, purchaseId) ==
    [type |-> "RESTOCK", quantity |-> r.quantity,
     reason |-> <<"Purchase - Order", r.orderNumber>>, reference |-> purchaseId]

PurchaseMovement(r, purchaseId) ==
    [type |-> "RESTOCK", quantity |-> 0 - r.quantity,
     reason |-> <<"Purchase - Order", r.orderNumber>>, reference |-> purchaseId]

\* the request arrives, is validated, and the transaction does its first
\* statement, tx.sweet.findUnique, and the checks that follow it
CreateFind(r, in) ==
    /\ CanStart(r) /\ RoomForPurchase /\ RoomForMovement
    /\ \E userId \in in.createUsers, sweetId \in in.sweetIds,
          quantity \in in.purchaseQuantities :
         LET r0 == [Idle EXCEPT !.op = "create", !.userId = userId, !.sweetId = sweetId,
                               !.quantity = quantity, !.readPrice = sweet.price] IN
         IF userId = NoUser
         THEN Reply(r, Respond(r0, 401, "Authentication required"))
         ELSE IF ~ValidPurchaseQuantity(quantity)
         THEN Reply(r, Respond(r0, 400, "Valid quantity required"))
         ELSE IF sweetId # TheSweet \/ ~sweet.isActive
         THEN Reply(r, Respond(r0, CreateErrorCode("Sweet not found or inactive"),
                               "Sweet not found or inactive"))
         ELSE IF inventory.quantity < quantity
         THEN Reply(r, [Respond(r0, CreateErrorCode("Insufficient stock available"),
                                "Insufficient stock available")
                          EXCEPT !.available = inventory.quantity])
         ELSE Continue(r, [r0 EXCEPT !.pc = "insert"])
    /\ UNCHANGED db

\* tx.purchase.create with a generated orderNumber (unique index)
CreateInsert(r) ==
    /\ r.op = "create" /\ r.pc = "insert"
    /\ \E n \in GeneratedOrderNumbers :
         IF n \in CommittedOrderNumbers
         THEN Reply(r, [Respond(r, CreateErrorCode("Unique constraint failed"),
                                "Internal Server Error")
                          EXCEPT !.named = "orderNumber"])
         ELSE Continue(r, [r EXCEPT !.orderNumber = n, !.pc = "inventory"])
    /\ UNCHANGED db

\* tx.inventory.update { quantity: { decrement } }
CreateDecrement(r) ==
    /\ r.op = "create" /\ r.pc = "inventory"
    /\ ~InventoryLocked
    /\ Continue(r, [r EXCEPT !.pc = "commit"])
    /\ UNCHANGED db

\* the commit without the decrement of the stock
CreateCommitWithoutDecrement(r) ==
    /\ r.op = "create" /\ r.pc = "commit"
    /\ purchases' = Append(purchases, PurchaseData(r))
    /\ ledger' = Append(ledger, PurchaseMovement(r, Len(purchases) + 1))
    /\ \E cacheOk \in BOOLEAN :
         Reply(r, AfterCommit([r EXCEPT !.id = Len(purchases) + 1], cacheOk,
                              201, "Purchase created successfully",
                              CreateErrorCode("Redis error"), "Internal Server Error"))
    /\ UNCHANGED <<sweet, inventory, initialQuantity, catalog>>

\* tx.stockMovement.create, then the transaction callback returns: its three
\* writes become visible together; then the cache invalidation and the response
CreateCommit(r) ==
    /\ r.op = "create" /\ r.pc = "commit"
    /\ purchases' = Append(purchases, PurchaseData(r))
    /\ inventory' = [inventory EXCEPT !.quantity = @ - r.quantity]
    /\ ledger' = Append(ledger, PurchaseMovement(r, Len(purchases) + 1))
    /\ \E cacheOk \in BOOLEAN :
         Reply(r, AfterCommit([r EXCEPT !.id = Len(purchases) + 1], cacheOk,
                              201, "Purchase created successfully",
                              CreateErrorCode("Redis error"), "Internal Server Error"))
    /\ UNCHANGED <<sweet, initialQuantity, catalog>>

\* ---------------------------------------------------------- cancelPurchase
\* the check refusing cancelled purchases only
CanCancelUnlessCancelled(status) == status # "CANCELLED"

CanCancel(status) == status = "PENDING"

\* the movement typed RESTOCK
ReturnMovementAsRestock(r) ==
    [type |-> "RESTOCK", quantity |-> r.quantity,
     reason |-> <<"Purchase cancelled - Order", r.orderNumber>>, reference |-> r.id]

ReturnMovement(r) ==
    [type |-> "RETURN", quantity |-> r.quantity,
     reason |-> <<"Purchase cancelled - Order", r.orderNumber>>, reference |-> r.id]

\* the lookup by id alone
PurchaseFoundById(id, userId) == id \in 1..Len(purchases)

\* tx.purchase.findUnique({ where: { id, userId } }) finds a row
PurchaseFound(id, userId) ==
    id \in 1..Len(purchases) /\ purchases[id].userId = userId

\* the request arrives, and the transaction does its first statement,
\* tx.purchase.findUnique({ id, userId }), and the two checks that follow it
CancelFind(r, in) ==
    /\ CanStart(r) /\ RoomForMovement
    /\ \E userId \in in.cancelUsers, id \in PurchaseIds :
         LET r0 == [Idle EXCEPT !.op = "cancel", !.userId = userId, !.id = id]
             found == PurchaseFound(id, userId)
         IN  IF userId = NoUser
             THEN Reply(r, Respond(r0, 401, "Authentication required"))
             ELSE IF ~found
             THEN Reply(r, Respond(r0, CancelErrorCode("Purchase not found"),
                                   "Purchase not found"))
             ELSE IF ~CanCancel(purchases[id].status)
             THEN Reply(r, [Respond(r0, CancelErrorCode("Purchase cannot be cancelled"),
                                    "Purchase cannot be cancelled")
                              EXCEPT !.named = purchases[id].status])
             ELSE Continue(r, [r0 EXCEPT !.readStatus = purchases[id].status,
                                        !.quantity = purchases[id].quantity,
                                        !.orderNumber = purchases[id].orderNumber,
                                        !.pc = "status"])
    /\ UNCHANGED db

\* tx.purchase.update({ id }, { status: CANCELLED })
CancelUpdateStatus(r) ==
    /\ r.op = "cancel" /\ r.pc = "status"
    /\ ~PurchaseLocked(r.id)
    /\ Continue(r, [r EXCEPT !.pc = "inventory"])
    /\ UNCHANGED db

\* tx.inventory.update { quantity: { increment } }
CancelIncrement(r) ==
    /\ r.op = "cancel" /\ r.pc = "inventory"
    /\ ~InventoryLocked
    /\ Continue(r, [r EXCEPT !.pc = "commit"])
    /\ UNCHANGED db

\* the commit writing its movement over the last row of the ledger
CancelCommitOverwriting(r) ==
    /\ r.op = "cancel" /\ r.pc = "commit"
    /\ purchases' = [purchases EXCEPT ![r.id].status = "CANCELLED"]
    /\ inventory' = [inventory EXCEPT !.quantity = @ + r.quantity]
    /\ ledger' = [ledger EXCEPT ![Len(ledger)] = ReturnMovement(r)]
    /\ \E cacheOk \in BOOLEAN :
         Reply(r, [AfterCommit(r, cacheOk, 200, "Purchase cancelled successfully",
                               CancelErrorCode("Redis error"), "Internal server error")
                     EXCEPT !.replaced = purchases[r.id].status])
    /\ UNCHANGED <<sweet, initialQuantity, catalog>>

\* the commit of the status alone
CancelCommitStatusOnly(r) ==
    /\ r.op = "cancel" /\ r.pc = "commit"
    /\ purchases' = [purchases EXCEPT ![r.id].status = "CANCELLED"]
    /\ \E cacheOk \in BOOLEAN :
         Reply(r, [AfterCommit(r, cacheOk, 200, "Purchase cancelled successfully",
                               CancelErrorCode("Redis error"), "Internal server error")
                     EXCEPT !.replaced = purchases[r.id].status])
    /\ UNCHANGED <<sweet, inventory, initialQuantity, catalog, ledger>>

\* tx.stockMovement.create, the commit, the cache invalidation and the response
CancelCommit(r) ==
    /\ r.op = "cancel" /\ r.pc = "commit"
    /\ purchases' = [purchases EXCEPT ![r.id].status = "CANCELLED"]
    /\ inventory' = [inventory EXCEPT !.quantity = @ + r.quantity]
    /\ ledger' = Append(ledger, ReturnMovement(r))
    /\ \E cacheOk \in BOOLEAN :
         Reply(r, [AfterCommit(r, cacheOk, 200, "Purchase cancelled successfully",
                               CancelErrorCode("Redis error"), "Internal server error")
                     EXCEPT !.replaced = purchases[r.id].status])
    /\ UNCHANGED <<sweet, initialQuantity, catalog>>

\* ---------------------------------------------------- updatePurchaseStatus
\* the check refusing cancelled purchases only
StatusFrozenIfCancelled(status) == status = "CANCELLED"

StatusFrozen(status) == status \in {"CANCELLED", "RETURNED"}

\* the request arrives, is validated, and reads the purchase:
\* prisma.purchase.findUnique({ id }) and the two checks that follow it
UpdateFind(r, in) ==
    /\ CanStart(r)
    /\ \E id \in PurchaseIds, status \in in.statuses :
         LET r0 == [Idle EXCEPT !.op = "update", !.id = id, !.status = status] IN
         IF status \notin PurchaseStatus
         THEN Reply(r, Respond(r0, 400, "Invalid purchase status"))
         ELSE IF id \notin 1..Len(purchases)
         THEN Reply(r, Respond(r0, 404, "Purchase not found"))
         ELSE IF StatusFrozen(purchases[id].status)
         THEN Reply(r, [Respond(r0, 400, "Cannot change status")
                          EXCEPT !.named = purchases[id].status])
         ELSE Continue(r, [r0 EXCEPT !.readStatus = purchases[id].status, !.pc = "status"])
    /\ UNCHANGED db

\* the write, giving the quantity back when the target is CANCELLED
UpdateWriteRestoring(r) ==
    /\ r.op = "update" /\ r.pc = "status"
    /\ ~PurchaseLocked(r.id)
    /\ purchases' = [purchases EXCEPT ![r.id].status = r.status]
    /\ inventory' = [inventory EXCEPT !.quantity =
                        IF r.status = "CANCELLED" THEN @ + purchases[r.id].quantity ELSE @]
    /\ \E cacheOk \in BOOLEAN :
         Reply(r, [AfterCommit(r, cacheOk, 200, "Purchase status updated successfully",
                               500, "Internal server error")
                     EXCEPT !.replaced = purchases[r.id].status])
    /\ UNCHANGED <<sweet, initialQuantity, catalog, ledger>>

\* prisma.purchase.update({ id }, { status }), a statement of its own, then
\* the cache invalidation and the response
UpdateWrite(r) ==
    /\ r.op = "update" /\ r.pc = "status"
    /\ ~PurchaseLocked(r.id)
    /\ purchases' = [purchases EXCEPT ![r.id].status = r.status]
    /\ \E cacheOk \in BOOLEAN :
         Reply(r, [AfterCommit(r, cacheOk, 200, "Purchase status updated successfully",
                               500, "Internal server error")
                     EXCEPT !.replaced = purchases[r.id].status])
    /\ UNCHANGED <<sweet, inventory, initialQuantity, catalog, ledger>>

\* ------------------------------------------------------------ restockSweet
ValidRestockQuantity(quantity) == quantity >= 1 /\ quantity <= MAX_RESTOCK_QUANTITY

\* the reason as supplied, with no default
RestockReasonAsSupplied(r) == <<r.reason, 0>>

RestockReason(r) ==
    IF r.reason # NoReason THEN <<r.reason, 0>> ELSE <<"Restock of units", r.quantity>>

\* reference: `RESTOCK-${Date.now()}`, never a purchase id
RestockReference == 0

RestockMovement(r) ==
    [type |-> "RESTOCK", quantity |-> r.quantity, reason |-> RestockReason(r),
     reference |-> RestockReference]

\* new Date() of a restock: the updates of the inventory row are serialized by
\* its lock, so each restock's time is later than the one stored before it;
\* times are modelled by their order, 0 being null
Later(time) == time + 1

\* the request arrives, is validated, and the transaction does its first
\* statement, tx.sweet.findUnique, and the checks that follow it
RestockFind(r, in) ==
    /\ CanStart(r) /\ RoomForMovement
    /\ \E sweetId \in in.sweetIds, quantity \in in.restockQuantities, reason \in in.reasons :
         LET r0 == [Idle EXCEPT !.op = "restock", !.sweetId = sweetId,
                               !.quantity = quantity, !.reason = reason,
                               !.readQuantity = inventory.quantity] IN
         IF ~ValidRestockQuantity(quantity)
         THEN Reply(r, Respond(r0, 400, "Valid quantity required"))
         ELSE IF sweetId # TheSweet \/ ~sweet.isActive
         THEN Reply(r, Respond(r0, RestockErrorCode("Sweet not found or inactive"),
                               "Sweet not found or inactive"))
         ELSE Continue(r, [r0 EXCEPT !.pc = "inventory"])
    /\ UNCHANGED db

\* tx.inventory.update { quantity: { increment }, lastRestockedAt: new Date() }
RestockIncrement(r) ==
    /\ r.op = "restock" /\ r.pc = "inventory"
    /\ ~InventoryLocked
    /\ Continue(r, [r EXCEPT !.pc = "commit"])
    /\ UNCHANGED db

\* tx.stockMovement.create, the commit, the cache invalidation and the response
RestockCommit(r) ==
    /\ r.op = "restock" /\ r.pc = "commit"
    /\ inventory' = [inventory EXCEPT !.quantity = @ + r.quantity,
                                      !.lastRestockedAt = Later(@)]
    /\ ledger' = Append(ledger, RestockMovement(r))
    /\ \E cacheOk \in BOOLEAN :
         Reply(r, [AfterCommit(r, cacheOk, 200, "Sweet restocked successfully",
                               RestockErrorCode("Redis error"), "Internal Server Error")
                     EXCEPT !.previousQuantity = IF cacheOk THEN r.readQuantity ELSE 0,
                            !.newQuantity = IF cacheOk THEN inventory'.quantity ELSE 0])
    /\ UNCHANGED <<sweet, initialQuantity, catalog, purchases>>

\* --------------------------------------------------------- updateInventory
\* minStockLevel !== undefined && maxStockLevel !== undefined &&
\* minStockLevel >= maxStockLevel
MinNotBelowMaxStrictly(r) ==
    /\ Supplied(r.minStockLevel) /\ Supplied(r.maxStockLevel)
    /\ Value(r.minStockLevel) > Value(r.maxStockLevel)

MinNotBelowMax(r) ==
    /\ Supplied(r.minStockLevel) /\ Supplied(r.maxStockLevel)
    /\ Value(r.minStockLevel) >= Value(r.maxStockLevel)

\* reorderPoint !== undefined && minStockLevel !== undefined &&
\* reorderPoint < minStockLevel
ReorderBelowMin(r) ==
    /\ Supplied(r.reorderPoint) /\ Supplied(r.minStockLevel)
    /\ Value(r.reorderPoint) < Value(r.minStockLevel)

\* updateData with lastRestockedAt when the quantity is supplied
UpdateDataWithRestockTime(row, r) ==
    [row EXCEPT
       !.quantity = IF Supplied(r.setQuantity) THEN Value(r.setQuantity) ELSE @,
       !.lastRestockedAt = IF Supplied(r.setQuantity) THEN Later(@) ELSE @,
       !.minStockLevel = IF Supplied(r.minStockLevel) THEN Value(r.minStockLevel) ELSE @,
       !.maxStockLevel = IF Supplied(r.maxStockLevel) THEN Value(r.maxStockLevel) ELSE @,
       !.reorderPoint = IF Supplied(r.reorderPoint) THEN Value(r.reorderPoint) ELSE @]

\* updateData: the fields of the body that are not undefined
UpdateData(row, r) ==
    [row EXCEPT
       !.quantity = IF Supplied(r.setQuantity) THEN Value(r.setQuantity) ELSE @,
       !.minStockLevel = IF Supplied(r.minStockLevel) THEN Value(r.minStockLevel) ELSE @,
       !.maxStockLevel = IF Supplied(r.maxStockLevel) THEN Value(r.maxStockLevel) ELSE @,
       !.reorderPoint = IF Supplied(r.reorderPoint) THEN Value(r.reorderPoint) ELSE @]

\* the request arrives and reads the inventory of the active sweet:
\* prisma.inventory.findFirst, and the checks of the levels
UpdateInventoryFind(r, in) ==
    /\ CanStart(r)
    /\ \E sweetId \in in.sweetIds, quantity \in in.quantities,
          min \in in.levels, max \in in.levels, reorder \in in.levels :
         LET r0 == [Idle EXCEPT !.op = "inventory", !.sweetId = sweetId,
                               !.setQuantity = quantity, !.minStockLevel = min,
                               !.maxStockLevel = max, !.reorderPoint = reorder] IN
         IF sweetId # TheSweet \/ ~sweet.isActive
         THEN Reply(r, Respond(r0, 404, "Inventory not found for this sweet"))
         ELSE IF MinNotBelowMax(r0)
         THEN Reply(r, Respond(r0, 400, "Minimum stock level must be less than maximum"))
         ELSE IF ReorderBelowMin(r0)
         THEN Reply(r, Respond(r0, 400, "Reorder point must be at least the minimum"))
         ELSE Continue(r, [r0 EXCEPT !.pc = "write"])
    /\ UNCHANGED db

\* the write with a movement for the difference
UpdateInventoryWriteLogged(r) ==
    /\ r.op = "inventory" /\ r.pc = "write"
    /\ ~InventoryLocked
    /\ inventory' = [inventory EXCEPT
                        !.quantity = IF Supplied(r.setQuantity) THEN Value(r.setQuantity) ELSE @]
    /\ ledger' = Append(ledger, [type |-> "RESTOCK",
                                 quantity |-> inventory'.quantity - inventory.quantity,
                                 reason |-> <<"Correction", 0>>, reference |-> 0])
    /\ \E cacheOk \in BOOLEAN :
         Reply(r, AfterCommit(r, cacheOk, 200, "Inventory updated successfully",
                              500, "Internal server error"))
    /\ UNCHANGED <<sweet, initialQuantity, catalog, purchases>>

\* prisma.inventory.update({ id: inventory.id }, updateData), then the cache
\* invalidation and the response
UpdateInventoryWrite(r) ==
    /\ r.op = "inventory" /\ r.pc = "write"
    /\ ~InventoryLocked
    /\ inventory' = UpdateData(inventory, r)
    /\ \E cacheOk \in BOOLEAN :
         Reply(r, AfterCommit(r, cacheOk, 200, "Inventory updated successfully",
                              500, "Internal server error"))
    /\ UNCHANGED <<sweet, initialQuantity, catalog, purchases, ledger>>

\* ------------------------------------------------------------- deleteSweet
\* sweet._count.purchases > 0
HasPurchases == Len(purchases) > 0

\* the request arrives and reads the sweet: prisma.sweet.findUnique({ id,
\* isActive: true }) with the count of its purchases, and the two checks
DeleteFind(r, in) ==
    /\ CanStart(r)
    /\ \E sweetId \in in.sweetIds :
         LET r0 == [Idle EXCEPT !.op = "delete", !.sweetId = sweetId] IN
         IF sweetId # TheSweet \/ ~sweet.isActive
         THEN Reply(r, Respond(r0, 404, "Sweet not found"))
         ELSE IF HasPurchases
         THEN Reply(r, Respond(r0, 409, "Cannot delete sweet with existing purchases"))
         ELSE Continue(r, [r0 EXCEPT !.pc = "deactivate"])
    /\ UNCHANGED db

\* prisma.sweet.update({ id }, { isActive: false }), a statement of its own,
\* then the cache invalidation and the response
DeleteWrite(r) ==
    /\ r.op = "delete" /\ r.pc = "deactivate"
    /\ sweet' = [sweet EXCEPT !.isActive = FALSE]
    /\ \E cacheOk \in BOOLEAN :
         Reply(r, AfterCommit(r, cacheOk, 200, "Sweet deleted successfully",
                              500, "Internal server error"))
    /\ UNCHANGED <<inventory, initialQuantity, catalog, purchases, ledger>>

\* ------------------------------------------------ createSweet, updateSweet
\* String.prototype.trim on the names of Names
Trim(name) == IF name = "Fudge " THEN "Fudge" ELSE name

\* the lower-case form of the names of Names
Lower(name) ==
    CASE name \in {"Fudge", "fudge"} -> "fudge"
      [] name = "Fudge " -> "fudge "
      [] name = "Toffee" -> "toffee"
      [] OTHER -> name

\* name: { equals: name, mode: 'insensitive' }
EqualsInsensitive(stored, name) == Lower(stored) = Lower(name)

\* prisma.sweet.findFirst({ name equals insensitive, isActive: true, NOT: { id } }):
\* the active sweets of that name, the one numbered `except` left out
SweetsNamed(name, except) ==
    {i \in 1..Len(catalog) : /\ i # except
                             /\ catalog[i].isActive
                             /\ EqualsInsensitive(catalog[i].name, name)}

\* the request arrives: the required fields, then the look-up of the name
CreateSweetFind(r, in) ==
    /\ CanStart(r)
    /\ RoomForSweet
    /\ \E name \in in.names :
         LET r0 == [Idle EXCEPT !.op = "createSweet", !.name = name] IN
         IF name = NoName
         THEN Reply(r, Respond(r0, 400, "Name, category, price, and quantity are required"))
         ELSE IF SweetsNamed(name, 0) # {}
         THEN Reply(r, Respond(r0, 409, "Sweet with this name already exists"))
         ELSE Continue(r, [r0 EXCEPT !.pc = "insert"])
    /\ UNCHANGED db

\* tx.sweet.create({ name: name.trim(), ... }), the cache and the response
CreateSweetInsert(r) ==
    /\ r.op = "createSweet" /\ r.pc = "insert"
    /\ catalog' = Append(catalog, [name |-> Trim(r.name), isActive |-> TRUE])
    /\ \E cacheOk \in BOOLEAN :
         Reply(r, AfterCommit(r, cacheOk, 201, "Sweet created successfully",
                              500, "Internal Server Error"))
    /\ UNCHANGED <<sweet, inventory, initialQuantity, purchases, ledger>>

\* the request arrives: prisma.sweet.findUnique({ id, isActive: true }), then
\* the test `name && name !== existingSweet.name`
UpdateSweetFind(r, in) ==
    /\ CanStart(r)
    /\ \E id \in in.ids, name \in in.names :
         LET r0 == [Idle EXCEPT !.op = "updateSweet", !.id = id, !.name = name] IN
         IF id \notin 1..Len(catalog) \/ ~catalog[id].isActive
         THEN Reply(r, Respond(r0, 404, "Sweet not found"))
         ELSE IF name # NoName /\ name # catalog[id].name
         THEN Continue(r, [r0 EXCEPT !.pc = "duplicate"])
         ELSE Continue(r, [r0 EXCEPT !.pc = "write"])
    /\ UNCHANGED db

\* the look-up of another active sweet of that name
UpdateSweetDuplicate(r) ==
    /\ r.op = "updateSweet" /\ r.pc = "duplicate"
    /\ IF SweetsNamed(r.name, r.id) # {}
       THEN Reply(r, Respond(r, 409, "Sweet with this name already exists"))
       ELSE Continue(r, [r EXCEPT !.pc = "write"])
    /\ UNCHANGED db

\* updateData.name = name.trim() when a name is given, prisma.sweet.update,
\* the cache and the response
UpdateSweetWrite(r) ==
    /\ r.op = "updateSweet" /\ r.pc = "write"
    /\ catalog' = [catalog EXCEPT ![r.id].name = IF r.name # NoName THEN Trim(r.name) ELSE @]
    /\ \E cacheOk \in BOOLEAN :
         Reply(r, AfterCommit(r, cacheOk, 200, "Sweet updated successfully",
                              500, "Internal server error"))
    /\ UNCHANGED <<sweet, inventory, initialQuantity, purchases, ledger>>

\* --------------------------------------------------------- storage errors
\* a statement of a transaction fails: prisma rolls the transaction back and
\* the handler's catch block answers 500; nothing of it was ever visible
InTransaction(r) ==
    r.op \in {"create", "cancel", "restock"}

TxAbort(r) ==
    /\ InTransaction(r)
    /\ Reply(r, Respond(r, 500, "Internal Server Error"))
    /\ UNCHANGED db

\* ------------------------------------------------------------------ system
\* the sweet and its inventory as createSweet made them, nothing bought yet
InitWith(prices, quantities) ==
    /\ \E price \in prices : sweet = [isActive |-> TRUE, price |-> price]
    /\ \E quantity \in quantities :
         /\ inventory = [quantity |-> quantity, lastRestockedAt |-> 0,
                         minStockLevel |-> MIN_STOCK_LEVEL,
                         maxStockLevel |-> quantity * 10,
                         reorderPoint |-> Max(MIN_REORDER_POINT, (quantity * 2) \div 10)]
         /\ initialQuantity = quantity
    /\ purchases = <<>>
    /\ ledger = <<>>
    /\ catalog = <<>>
    /\ req = EmptyBag
    /\ response = NoResponse

Requests == BagToSet(req) \cup {Idle}
\* the requests that can take a step when requests are handled one at a time
Sole == {r \in Requests : BagCardinality(req (-) SetToBag({r})) = 0}

\* concurrent requests, well formed
Init == InitWith({MaxPrice}, {MaxQuantity})

Next ==
    \/ \E r \in Requests : CreateFind(r, CoreInputs)
    \/ \E r \in Requests : CreateInsert(r)
    \/ \E r \in Requests : CreateDecrement(r)
    \/ \E r \in Requests : CreateCommit(r)
    \/ \E r \in Requests : CancelFind(r, CoreInputs)
    \/ \E r \in Requests : CancelUpdateStatus(r)
    \/ \E r \in Requests : CancelIncrement(r)
    \/ \E r \in Requests : CancelCommit(r)
    \/ \E r \in Requests : UpdateFind(r, CoreInputs)
    \/ \E r \in Requests : UpdateWrite(r)
    \/ \E r \in Requests : RestockFind(r, CoreInputs)
    \/ \E r \in Requests : RestockIncrement(r)
    \/ \E r \in Requests : RestockCommit(r)
    \/ \E r \in Requests : TxAbort(r)

Spec == Init /\ [][Next]_vars

\* one request at a time, of every kind
InitSeq == InitWith({MaxPrice}, 0..MaxQuantity)

NextSeq ==
    \/ \E r \in Sole : CreateFind(r, AllInputs)
    \/ \E r \in Sole : CreateInsert(r)
    \/ \E r \in Sole : CreateDecrement(r)
    \/ \E r \in Sole : CreateCommit(r)
    \/ \E r \in Sole : CancelFind(r, AllInputs)
    \/ \E r \in Sole : CancelUpdateStatus(r)
    \/ \E r \in Sole : CancelIncrement(r)
    \/ \E r \in Sole : CancelCommit(r)
    \/ \E r \in Sole : UpdateFind(r, AllInputs)
    \/ \E r \in Sole : UpdateWrite(r)
    \/ \E r \in Sole : RestockFind(r, AllInputs)
    \/ \E r \in Sole : RestockIncrement(r)
    \/ \E r \in Sole : RestockCommit(r)
    \/ \E r \in Sole : TxAbort(r)
    \/ \E r \in Sole : DeleteFind(r, AllInputs)
    \/ \E r \in Sole : DeleteWrite(r)

SpecSeq == InitSeq /\ [][NextSeq]_vars

\* updateInventory requests, one at a time
InitInv == InitWith({MaxPrice}, {MaxQuantity})

NextInv ==
    \/ \E r \in Sole : UpdateInventoryFind(r, InventoryInputs)
    \/ \E r \in Sole : UpdateInventoryWrite(r)

SpecInv == InitInv /\ [][NextInv]_vars

\* every operation on the sweet, one request at a time, well formed
InitAll == InitWith({MaxPrice}, {MaxQuantity})

NextAll ==
    \/ \E r \in Sole : CreateFind(r, CoreInputs)
    \/ \E r \in Sole : CreateInsert(r)
    \/ \E r \in Sole : CreateDecrement(r)
    \/ \E r \in Sole : CreateCommit(r)
    \/ \E r \in Sole : CancelFind(r, CoreInputs)
    \/ \E r \in Sole : CancelUpdateStatus(r)
    \/ \E r \in Sole : CancelIncrement(r)
    \/ \E r \in Sole : CancelCommit(r)
    \/ \E r \in Sole : UpdateFind(r, CoreInputs)
    \/ \E r \in Sole : UpdateWrite(r)
    \/ \E r \in Sole : RestockFind(r, CoreInputs)
    \/ \E r \in Sole : RestockIncrement(r)
    \/ \E r \in Sole : RestockCommit(r)
    \/ \E r \in Sole : TxAbort(r)
    \/ \E r \in Sole : DeleteFind(r, CoreInputs)
    \/ \E r \in Sole : DeleteWrite(r)
    \/ \E r \in Sole : UpdateInventoryFind(r, QuantityInputs)
    \/ \E r \in Sole : UpdateInventoryWrite(r)

SpecAll == InitAll /\ [][NextAll]_vars

\* the purchases of the sweet and its deletion, handlers running together
InitDel == InitWith({MaxPrice}, 1..MaxQuantity)

NextDel ==
    \/ \E r \in Requests : CreateFind(r, CoreInputs)
    \/ \E r \in Requests : CreateInsert(r)
    \/ \E r \in Requests : CreateDecrement(r)
    \/ \E r \in Requests : CreateCommit(r)
    \/ \E r \in Requests : TxAbort(r)
    \/ \E r \in Requests : DeleteFind(r, CoreInputs)
    \/ \E r \in Requests : DeleteWrite(r)

SpecDel == InitDel /\ [][NextDel]_vars

\* the sweets made and renamed, handlers running together
InitNames == InitWith({MaxPrice}, {MaxQuantity})

NextNames ==
    \/ \E r \in Requests : CreateSweetFind(r, NameInputs)
    \/ \E r \in Requests : CreateSweetInsert(r)
    \/ \E r \in Requests : UpdateSweetFind(r, NameInputs)
    \/ \E r \in Requests : UpdateSweetDuplicate(r)
    \/ \E r \in Requests : UpdateSweetWrite(r)

SpecNames == InitNames /\ [][NextNames]_vars

\* ------------------------------------------------------------ observation
\* the step is one of handler op: it answered, or went on to its next statement
Acted(op) ==
    \/ response'.op = op
    \/ /\ response' = NoResponse
       /\ \E r2 \in BagToSet(req') : r2.op = op /\ CopiesIn(r2, req') > CopiesIn(r2, req)

\* the step appends exactly one row to rows
AppendsOne(rows, rows2) ==
    Len(rows2) = Len(rows) + 1 /\ SubSeq(rows2, 1, Len(rows)) = rows

\* the ledger rows of a type that reference a purchase
MovementsOf(type, id) ==
    {k \in 1..Len(ledger) : ledger[k].type = type /\ ledger[k].reference = id}

\* ---------------------------------------------------------------- claims
\* C1: in every state, whatever createPurchase, cancelPurchase and
\* restockSweet calls succeeded or failed before it, Inventory.quantity is
\* the initial quantity plus the sum of the signed quantities of the ledger.
C1_QuantityIsInitialPlusLedger ==
    inventory.quantity = initialQuantity + SumQuantity(ledger)

\* a purchase, its cancellation and a restock are all in the ledger
C1_Witness ==
    /\ \E k \in 1..Len(ledger) : ledger[k].type = "RESTOCK" /\ ledger[k].quantity < 0
    /\ \E k \in 1..Len(ledger) : ledger[k].type = "RETURN"
    /\ \E k \in 1..Len(ledger) : ledger[k].type = "RESTOCK" /\ ledger[k].quantity > 0

\* C2: concurrent createPurchase requests never take more than the stock
\* there is: Inventory.quantity is never negative.
C2_StockNeverNegative ==
    inventory.quantity >= 0

\* C3: however cancelPurchase requests on one purchase interleave, at most
\* one RETURN entry references the purchase (its quantity comes back once).
C3_ReturnedOnce ==
    \A id \in 1..Len(purchases) : Cardinality(MovementsOf("RETURN", id)) <= 1

\* a cancelPurchase request of a user on a purchase arrives in this step
CancelCalled(userId, id) ==
    \/ /\ req' = req
       /\ response'.op = "cancel" /\ response'.userId = userId /\ response'.id = id
    \/ \E r2 \in BagToSet(req') :
         /\ r2.op = "cancel" /\ r2.pc = "status" /\ r2.userId = userId /\ r2.id = id
         /\ req' = req (+) SetToBag({r2})

\* C4: a cancelPurchase request of the owner on a purchase that is not
\* PENDING is answered 400 "cannot be cancelled" naming the purchase's
\* status, the handler ends, and no row changes.
C4_CancelOfNonPendingFails ==
    [][\A userId \in Users, id \in 1..Len(purchases) :
         (/\ CancelCalled(userId, id)
          /\ purchases[id].userId = userId
          /\ purchases[id].status # "PENDING")
         => /\ response'.code = 400
            /\ response'.message = "Purchase cannot be cancelled"
            /\ response'.named = purchases[id].status
            /\ req' = req
            /\ UNCHANGED db]_vars

\* the owner's second cancel of a cancelled purchase has just been refused
C4_Witness ==
    /\ response.op = "cancel" /\ response.code = 400
    /\ response.id \in 1..Len(purchases)
    /\ purchases[response.id].userId = response.userId
    /\ purchases[response.id].status = "CANCELLED"
    /\ response.named = "CANCELLED"

\* the three writes of a createPurchase, seen in one step
CreateEffects ==
    LET id == Len(purchases) + 1 IN
    /\ AppendsOne(purchases, purchases')
    /\ purchases'[id].status = "PENDING"
    /\ inventory'.quantity = inventory.quantity - purchases'[id].quantity
    /\ AppendsOne(ledger, ledger')
    /\ ledger'[Len(ledger')].type = "RESTOCK"
    /\ ledger'[Len(ledger')].reference = id
    /\ ledger'[Len(ledger')].quantity = 0 - purchases'[id].quantity

\* C5: a step of createPurchase changes no row or makes the purchase row,
\* the decrement by its quantity and the ledger entry referencing it
\* together; one that ends without committing changes nothing; and no step
\* adds a purchase or lowers the stock otherwise.
C5_CreateAllOrNothing ==
    [][/\ Acted("create") => (UNCHANGED db \/ CreateEffects)
       /\ (response'.op = "create" /\ ~response'.committed) => UNCHANGED db
       /\ Len(purchases') # Len(purchases) => (response'.op = "create" /\ CreateEffects)
       /\ inventory'.quantity < inventory.quantity => (response'.op = "create" /\ CreateEffects)
      ]_vars

\* a createPurchase was committed, and a later one has just been aborted
C5_Witness ==
    /\ Len(purchases) = 1 /\ Len(ledger) = 1
    /\ inventory.quantity = initialQuantity - purchases[1].quantity
    /\ response.op = "create" /\ response.code = 500 /\ ~response.committed

\* the three writes of a cancelPurchase on a purchase, seen in one step
CancelEffects(id) ==
    /\ purchases' = [purchases EXCEPT ![id].status = "CANCELLED"]
    /\ inventory'.quantity = inventory.quantity + purchases[id].quantity
    /\ AppendsOne(ledger, ledger')
    /\ ledger'[Len(ledger')].type = "RETURN"
    /\ ledger'[Len(ledger')].reference = id
    /\ ledger'[Len(ledger')].quantity = purchases[id].quantity

\* C6: a step of cancelPurchase changes no row or makes the status
\* CANCELLED, adds the purchase's quantity back and appends the RETURN entry
\* referencing it together; one that ends without committing changes
\* nothing; and no step appends a RETURN entry otherwise.
C6_CancelAllOrNothing ==
    [][/\ Acted("cancel") =>
            \/ UNCHANGED db
            \/ response'.id \in 1..Len(purchases) /\ CancelEffects(response'.id)
       /\ (response'.op = "cancel" /\ ~response'.committed) => UNCHANGED db
       /\ (Len(ledger') > Len(ledger) /\ ledger'[Len(ledger')].type = "RETURN")
            => (response'.op = "cancel" /\ response'.id \in 1..Len(purchases)
                /\ CancelEffects(response'.id))
      ]_vars

\* a cancelPurchase of a PENDING purchase has just been committed
C6_Witness ==
    /\ response.op = "cancel" /\ response.committed /\ response.replaced = "PENDING"
    /\ purchases[response.id].status = "CANCELLED"
    /\ MovementsOf("RETURN", response.id) # {}

\* C7: a purchase that is CANCELLED or RETURNED keeps its status in every
\* step, however cancelPurchase and updatePurchaseStatus interleave.
C7_CancelledAndReturnedAreFinal ==
    [][\A id \in 1..Len(purchases) :
         purchases[id].status \in {"CANCELLED", "RETURNED"}
         => purchases'[id].status = purchases[id].status]_vars

\* C8, as the specification has it: a status changes only from PENDING, and
\* only to COMPLETED or CANCELLED (COMPLETED is final).
C8_CompletedIsFinal ==
    [][\A id \in 1..Len(purchases) :
         purchases'[id].status # purchases[id].status
         => /\ purchases[id].status = "PENDING"
            /\ purchases'[id].status \in {"COMPLETED", "CANCELLED"}]_vars

\* C8, as the code has it: a status changes only when an
\* updatePurchaseStatus that read the purchase as PENDING or COMPLETED
\* writes its target, any of the four statuses, or when a cancelPurchase
\* that read it as PENDING writes CANCELLED.
C8_StatusChangesByReadStatus ==
    [][\A id \in 1..Len(purchases) :
         purchases'[id].status # purchases[id].status
         => \E r \in BagToSet(req) :
              /\ req' = req (-) SetToBag({r})
              /\ r.id = id
              /\ \/ /\ r.op = "update"
                    /\ r.readStatus \in {"PENDING", "COMPLETED"}
                    /\ r.status \in PurchaseStatus
                    /\ purchases'[id].status = r.status
                 \/ /\ r.op = "cancel"
                    /\ r.readStatus = "PENDING"
                    /\ purchases'[id].status = "CANCELLED"]_vars

\* an updatePurchaseStatus has just made a COMPLETED purchase PENDING again
C8_Witness ==
    /\ response.op = "update" /\ response.committed /\ response.replaced = "COMPLETED"
    /\ purchases[response.id].status = "PENDING"

\* C9: no step of updatePurchaseStatus changes the inventory row (quantity,
\* lastRestockedAt) or the ledger; the stock grows only in a step of
\* cancelPurchase or restockSweet, and a RETURN entry is appended only by
\* cancelPurchase.
C9_UpdateStatusLeavesStock ==
    [][/\ Acted("update") => UNCHANGED <<inventory, ledger>>
       /\ inventory'.quantity > inventory.quantity => response'.op \in {"cancel", "restock"}
       /\ (Len(ledger') > Len(ledger) /\ ledger'[Len(ledger')].type = "RETURN")
            => response'.op = "cancel"
      ]_vars

\* an updatePurchaseStatus has just made a PENDING purchase CANCELLED: its
\* quantity is still out of the stock and no RETURN entry references it
C9_Witness ==
    /\ response.op = "update" /\ response.committed /\ response.replaced = "PENDING"
    /\ purchases[response.id].status = "CANCELLED"
    /\ MovementsOf("RETURN", response.id) = {}
    /\ inventory.quantity = initialQuantity - purchases[response.id].quantity

\* C10: every purchase has the sweet's price as its unitPrice and
\* unitPrice * quantity as its totalAmount.
C10_TotalIsUnitPriceTimesQuantity ==
    \A id \in 1..Len(purchases) :
        /\ purchases[id].unitPrice = sweet.price
        /\ purchases[id].totalAmount = purchases[id].unitPrice * purchases[id].quantity

\* the requests that arrive in this step (none or one), by what they carry
Arrived ==
    {response'.request : x \in {y \in {1} : req' = req /\ response'.op # "none"}}
    \cup {Inputs(r2) : r2 \in {x \in BagToSet(req') : req' = req (+) SetToBag({x})}}

\* C11: a createPurchase answered 201 was one of quantity q by a user on the
\* active sweet with stock s >= q; its step adds one PENDING purchase of q
\* owned by that user, makes the quantity s - q and appends one ledger entry
\* of quantity -q referencing the new purchase; the answer carries its id.
C11_CreateSucceeds ==
    [][(response'.op = "create" /\ response'.code = 201)
       => \E r \in BagToSet(req) :
            LET id == Len(purchases) + 1 IN
            /\ r.op = "create" /\ req' = req (-) SetToBag({r})
            /\ sweet.isActive /\ inventory.quantity >= r.quantity
            /\ CreateEffects
            /\ purchases'[id].userId = r.userId
            /\ purchases'[id].quantity = r.quantity
            /\ inventory'.quantity = inventory.quantity - r.quantity
            /\ response'.id = id]_vars

\* the first purchase has just been made
C11_Witness ==
    /\ response.op = "create" /\ response.code = 201 /\ response.id = 1
    /\ Len(purchases) = 1 /\ Len(ledger) = 1
    /\ purchases[1].userId = response.userId /\ purchases[1].status = "PENDING"
    /\ purchases[1].quantity = MaxQuantity
    /\ inventory.quantity = initialQuantity - MaxQuantity

\* C12: a cancelPurchase answered 200 was one on a PENDING purchase of
\* quantity q; its step makes it CANCELLED, adds exactly q to the quantity
\* and appends one RETURN entry of +q referencing it, q being what the
\* purchase's own ledger entry took out.
C12_CancelRestores ==
    [][(response'.op = "cancel" /\ response'.code = 200)
       => /\ response'.id \in 1..Len(purchases)
          /\ purchases[response'.id].status = "PENDING"
          /\ CancelEffects(response'.id)
          /\ \E k \in MovementsOf("RESTOCK", response'.id) :
               ledger[k].quantity = 0 - purchases[response'.id].quantity]_vars

\* a purchase was made and cancelled: the quantity is back at its first value
C12_Witness ==
    /\ response.op = "cancel" /\ response.code = 200
    /\ Len(purchases) = 1 /\ purchases[1].status = "CANCELLED"
    /\ Len(ledger) = 2 /\ ledger[2].quantity = purchases[1].quantity
    /\ inventory.quantity = initialQuantity

C14_CancelOfAnothersPurchase ==
    [][\A userId \in Users, id \in PurchaseIds :
         (/\ CancelCalled(userId, id)
          /\ (id \notin 1..Len(purchases) \/ purchases[id].userId # userId))
         => /\ response'.code = 404
            /\ response'.message = "Purchase not found"
            /\ req' = req
            /\ UNCHANGED db]_vars

\* a user's cancel of another user's PENDING purchase has just been refused
C14_Witness ==
    /\ response.op = "cancel" /\ response.code = 404
    /\ response.id \in 1..Len(purchases)
    /\ response.userId \in Users
    /\ purchases[response.id].userId # response.userId
    /\ purchases[response.id].status = "PENDING"

\* C15: a createPurchase of a user for a valid quantity of a sweet that does
\* not exist or is inactive is answered 404 and changes no row.
C15_SweetNotFound ==
    [][\A i \in Arrived :
         (/\ i.op = "create" /\ i.userId \in Users
          /\ i.quantity \in 1..MAX_PURCHASE_QUANTITY
          /\ (i.sweetId # TheSweet \/ ~sweet.isActive))
         => /\ response'.code = 404
            /\ response'.message = "Sweet not found or inactive"
            /\ req' = req
            /\ UNCHANGED db]_vars

\* a purchase of the deleted sweet has just been refused
C15_Witness ==
    /\ response.op = "create" /\ response.code = 404
    /\ response.request.sweetId = TheSweet /\ ~sweet.isActive
    /\ purchases = <<>> /\ ledger = <<>>

\* C16: a createPurchase of a user with a quantity below 1 or above 100 is
\* answered 400 in the step it arrives, before any statement on the
\* database, and changes no row; every purchase has a quantity in 1..100.
C16_QuantityValidated ==
    /\ [](\A id \in 1..Len(purchases) : purchases[id].quantity \in 1..MAX_PURCHASE_QUANTITY)
    /\ [][\A i \in Arrived :
            (/\ i.op = "create" /\ i.userId \in Users
             /\ i.quantity \notin 1..MAX_PURCHASE_QUANTITY)
            => /\ response'.code = 400
               /\ response'.message = "Valid quantity required"
               /\ req' = req
               /\ UNCHANGED db]_vars

\* a purchase of 101 has just been refused, the stock being what it was
C16_Witness ==
    /\ response.op = "create" /\ response.code = 400
    /\ response.message = "Valid quantity required"
    /\ response.request.quantity = MAX_PURCHASE_QUANTITY + 1
    /\ inventory.quantity = initialQuantity /\ inventory.quantity > 0

\* C17: a restockSweet answered 200 was one of a quantity q in 1..10000 on
\* the active sweet; its step adds exactly q to the quantity, makes
\* lastRestockedAt later than it was, and appends one RESTOCK entry of +q
\* whose reason is the one supplied or, when none was, the default.
C17_RestockSucceeds ==
    [][(response'.op = "restock" /\ response'.code = 200)
       => \E r \in BagToSet(req) :
            /\ r.op = "restock" /\ req' = req (-) SetToBag({r})
            /\ r.quantity \in 1..MAX_RESTOCK_QUANTITY /\ sweet.isActive
            /\ inventory'.quantity = inventory.quantity + r.quantity
            /\ inventory'.lastRestockedAt > inventory.lastRestockedAt
            /\ AppendsOne(ledger, ledger')
            /\ ledger'[Len(ledger')].type = "RESTOCK"
            /\ ledger'[Len(ledger')].quantity = r.quantity
            /\ ledger'[Len(ledger')].reason =
                  IF r.reason # NoReason THEN <<r.reason, 0>>
                  ELSE <<"Restock of units", r.quantity>>
            /\ UNCHANGED <<sweet, purchases>>]_vars

\* a restock without a reason has just been made
C17_Witness ==
    /\ response.op = "restock" /\ response.code = 200
    /\ response.request.reason = NoReason
    /\ Len(ledger) = 1 /\ ledger[1].reason = <<"Restock of units", 1>>
    /\ inventory.quantity = initialQuantity + 1 /\ inventory.lastRestockedAt > 0

\* C18: an updateInventory on the active sweet's inventory with both
\* minStockLevel and maxStockLevel where min >= max, or with both
\* reorderPoint and minStockLevel where reorder < min, is answered 400 in
\* the step it arrives and changes no field of the inventory row.
C18_LevelsValidated ==
    [][\A i \in Arrived :
         (/\ i.op = "inventory" /\ i.sweetId = TheSweet /\ sweet.isActive
          /\ \/ /\ i.minStockLevel # <<>> /\ i.maxStockLevel # <<>>
                /\ i.minStockLevel[1] >= i.maxStockLevel[1]
             \/ /\ i.reorderPoint # <<>> /\ i.minStockLevel # <<>>
                /\ i.reorderPoint[1] < i.minStockLevel[1])
         => /\ response'.code = 400
            /\ req' = req
            /\ inventory' = inventory
            /\ UNCHANGED db]_vars

\* an updateInventory with min = max, and a quantity, has just been refused
C18_Witness ==
    /\ response.op = "inventory" /\ response.code = 400
    /\ response.request.minStockLevel = <<1>> /\ response.request.maxStockLevel = <<1>>
    /\ response.request.setQuantity # <<>>
    /\ inventory.quantity = initialQuantity
    /\ inventory.minStockLevel = MIN_STOCK_LEVEL

\* C19: a createPurchase, cancelPurchase or restockSweet that answers after
\* its transaction was committed answers success (200 or 201), whether or
\* not the cache invalidation failed.
C19_CommittedIsReportedAsSuccess ==
    (response.op \in {"create", "cancel", "restock"} /\ response.committed)
    => response.code \in {200, 201}

\* C20: a createPurchase that ends on an orderNumber that a purchase has
\* already is answered with a conflict (409).
C20_CollisionIsConflict ==
    (response.op = "create" /\ response.named = "orderNumber")
    => response.code = 409

\* C21: Inventory.quantity is a non-negative integer in every state, after
\* any updateInventory, with a quantity or without.
C21_QuantityIsNatural ==
    inventory.quantity \in Nat

C29_RestockReportsItsStep ==
    (response.op = "restock" /\ response.code = 200)
    => /\ response.newQuantity = response.previousQuantity + response.request.quantity
       /\ response.newQuantity = inventory.quantity

C23_OnlyRestockSetsRestockTime ==
    [][inventory'.lastRestockedAt # inventory.lastRestockedAt
       => (response'.op = "restock" /\ response'.committed)]_vars

\* a cancelPurchase has just increased the quantity after a restock: the
\* time of the last restock is still the restock's
C23_Witness ==
    /\ response.op = "cancel" /\ response.code = 200
    /\ Len(ledger) = 3 /\ ledger[2].type = "RESTOCK" /\ ledger[2].quantity > 0
    /\ inventory.lastRestockedAt = 1

\* C26: an updateInventory answered 200 whose body has a quantity makes
\* Inventory.quantity that value, appends no ledger row and changes no
\* purchase; and any step that changes the quantity and appends no ledger
\* row is one of updateInventory.
C26_QuantityOverwritten ==
    [][/\ (/\ response'.op = "inventory" /\ response'.code = 200
           /\ response'.request.setQuantity # <<>>)
          => /\ inventory'.quantity = response'.request.setQuantity[1]
             /\ ledger' = ledger
             /\ purchases' = purchases
       /\ (inventory'.quantity # inventory.quantity /\ ledger' = ledger)
          => response'.op = "inventory"
      ]_vars

\* an updateInventory has just set a quantity that the ledger does not give
C26_Witness ==
    /\ response.op = "inventory" /\ response.code = 200
    /\ response.request.setQuantity = <<MaxLevel>>
    /\ inventory.quantity = MaxLevel
    /\ inventory.quantity # initialQuantity + SumQuantity(ledger)

\* the quantities restocked
Restocked ==
    SumQuantity(SelectSeq(ledger, LAMBDA m : m.type = "RESTOCK" /\ m.quantity > 0))

\* C27, as the specification has it: the quantity plus the quantities of the
\* purchases that are not CANCELLED is the initial quantity plus the
\* quantities restocked.
C27_StockConservedByStatus ==
    inventory.quantity
      + SumQuantity(SelectSeq(purchases, LAMBDA p : p.status # "CANCELLED"))
    = initialQuantity + Restocked

\* C27, as the code has it: the quantity plus the quantities of the
\* purchases that no RETURN entry references is the initial quantity plus
\* the quantities restocked, whatever the statuses are.
C27_StockConservedByReturns ==
    inventory.quantity
      + SumQuantity([id \in 1..Len(purchases) |->
                       [quantity |-> IF MovementsOf("RETURN", id) = {}
                                     THEN purchases[id].quantity ELSE 0]])
    = initialQuantity + Restocked

\* a purchase was made CANCELLED by updatePurchaseStatus and still holds
\* its stock, after a restock
C27_Witness ==
    /\ Len(purchases) = 1 /\ purchases[1].status = "CANCELLED"
    /\ MovementsOf("RETURN", 1) = {}
    /\ Restocked > 0
    /\ inventory.quantity = initialQuantity + Restocked - purchases[1].quantity

\* C25: a deleteSweet on an active sweet that has at least one purchase is
\* not refused: the handler goes on to set isActive to false, and the step that
\* does so removes nothing of the sweet, its inventory, purchases or ledger.
C25_DeleteWithPurchasesDeactivates ==
    [][/\ \A i \in Arrived :
            (i.op = "delete" /\ i.sweetId = TheSweet /\ sweet.isActive /\ HasPurchases)
            => response'.op = "none"
       /\ (Acted("delete") /\ response'.code = 200)
            => /\ ~sweet'.isActive
               /\ UNCHANGED <<inventory, purchases, ledger>>]_vars

\* C30: a sweet that is not active has no purchases.
C30_InactiveHasNoPurchases ==
    ~sweet.isActive => purchases = <<>>

\* C24: no two active sweets have names that are equal ignoring case.
C24_ActiveNamesDistinct ==
    \A i, j \in 1..Len(catalog) :
        (i # j /\ catalog[i].isActive /\ catalog[j].isActive)
        => ~EqualsInsensitive(catalog[i].name, catalog[j].name)

====
